---- MODULE Spec2Model ----
(***************************************************************************)
(* A model of packages/scripts/update.py (class DockerUpdater): the        *)
(* retrying download_file, the per-architecture version resolver, the      *)
(* compose release-asset locator, download_for_architecture and update().  *)
(* The network is the environment: every request is answered by a          *)
(* nondeterministic choice among the answers the code distinguishes.       *)
(***************************************************************************)
EXTENDS Integers, Sequences, FiniteSets, TLC

\* ---------------------------------------------------------------- bounds
\* Largest max_retries the stand-alone download_file driver passes.
MaxRetries == 3
\* Largest number of 8192-byte blocks a response body delivers.
MaxChunks == 2
\* Number of download_file invocations the stand-alone driver makes.
MaxCalls == 2
\* Largest number of links on an index page given to the resolver alone.
MaxLinks == 3
\* Largest number of assets in a release given to the locator alone.
MaxAssets == 2

\* --------------------------------------------------------------- helpers
RECURSIVE Pow2(_)
\* 2 ** n (line 295)
Pow2(n) == IF n = 0 THEN 1 ELSE 2 * Pow2(n - 1)

\* The distinct block values a body is made of.
Blocks == {0, 1}

\* A file's possible contents: the blocks written so far.
Contents == UNION {[1..n -> Blocks] : n \in 0..MaxChunks}

RECURSIVE HashFrom(_, _)
\* hash_obj.update(chunk) over the blocks of the file, in order.
HashFrom(h, blocks) ==
    IF blocks = <<>> THEN h
    ELSE HashFrom((h * 3 + Head(blocks) + 1) % 251, Tail(blocks))

\* Faulty variant: only the first block read is hashed.
calculate_file_hash_first(content) ==
    IF content = <<>> THEN 7 ELSE HashFrom(7, <<Head(content)>>)

\* calculate_file_hash: the digest of the bytes the file holds when it is read.
calculate_file_hash(content) == HashFrom(7, content)

\* Faulty variant: the destination is never found to exist.
Exists_never(fs, name) == FALSE

\* filepath.exists() (lines 225, 290).
Exists(fs, name) == name \in DOMAIN fs

\* wait_time = 2 ** attempt (line 295).
WaitTime(attempt) == Pow2(attempt)

\* Faulty variant: a sleep follows the last attempt too.
SleepsAfter_always(attempt, max_retries) == attempt < max_retries

\* attempt < max_retries - 1 (line 293): a sleep follows this attempt.
SleepsAfter(attempt, max_retries) == attempt < max_retries - 1

\* Faulty variant: the incomplete file is left where it is.
Unlink_keep(fs, name) == fs

\* Path.unlink guarded by Path.exists (lines 290-291).
Unlink(fs, name) == [g \in (DOMAIN fs) \ {name} |-> fs[g]]

\* open(filepath, 'wb'): the file exists and is empty.
OpenWb(fs, name) == [g \in (DOMAIN fs) \cup {name} |-> IF g = name THEN <<>> ELSE fs[g]]

\* f.write(buffer): one more block at the end of the file.
WriteBlock(fs, name, b) == [fs EXCEPT ![name] = Append(@, b)]

\* ------------------------------------------------------- version strings
\* A version is the text the code handles, a sequence of characters such as
\* <<"2","7",".","1","0",".","0">>; the code orders versions by parsing them.
DigitChars == <<"0", "1", "2", "3", "4", "5", "6", "7", "8", "9">>
\* The characters \d matches.
DigitSet == {DigitChars[d] : d \in 1..10}

RECURSIVE Str(_)
\* str(n) of a natural number.
Str(n) == IF n < 10 THEN <<DigitChars[n + 1]>>
          ELSE Str(n \div 10) \o <<DigitChars[(n % 10) + 1]>>

\* "MAJOR.MINOR.PATCH" as the index page and the release tags spell it.
VersionText(major, minor, patch) ==
    Str(major) \o <<".">> \o Str(minor) \o <<".">> \o Str(patch)

\* The value of one digit character.
DigitValue(c) == CHOOSE d \in 0..9 : DigitChars[d + 1] = c

RECURSIVE ParseInt(_, _)
\* int(text): the digits read left to right.
ParseInt(acc, text) ==
    IF text = <<>> THEN acc
    ELSE ParseInt(acc * 10 + DigitValue(Head(text)), Tail(text))

RECURSIVE Split(_, _)
\* v.split('.'): the pieces between the dots; cur is the piece being read.
Split(text, cur) ==
    IF text = <<>> THEN <<cur>>
    ELSE IF Head(text) = "." THEN <<cur>> \o Split(Tail(text), <<>>)
    ELSE Split(Tail(text), Append(cur, Head(text)))

\* tuple(map(int, v.split('.'))): the sort key of lines 105 and 120.
VersionKey(v) ==
    LET parts == Split(v, <<>>)
    IN  [i \in 1..Len(parts) |-> ParseInt(0, parts[i])]

\* Python's comparison a < b of two tuples (or two strings, as character
\* codes): the first difference decides, and a proper prefix is smaller.
SeqLess(a, b) ==
    \/ \E i \in 1..Len(a) :
          /\ i <= Len(b)
          /\ a[i] < b[i]
          /\ \A j \in 1..(i - 1) : a[j] = b[j]
    \/ /\ Len(a) < Len(b)
       /\ \A j \in 1..Len(a) : a[j] = b[j]

\* ord(c) for the characters of a version.
CharCode(c) == IF c = "." THEN 46 ELSE 48 + DigitValue(c)

\* Faulty variant: the versions are sorted as text, with no key.
SortKey_text(v) == [i \in 1..Len(v) |-> CharCode(v[i])]

\* key=lambda v: tuple(map(int, v.split('.'))) (lines 105, 120).
SortKey(v) == VersionKey(v)

RECURSIVE SortedDesc(_)
\* sorted(set(versions), key=..., reverse=True): each version once, the
\* greatest key first.
SortedDesc(S) ==
    IF S = {} THEN <<>>
    ELSE LET top == CHOOSE x \in S :
                      \A y \in S \ {x} : ~SeqLess(SortKey(x), SortKey(y))
         IN  <<top>> \o SortedDesc(S \ {top})

\* re.findall(r'docker-(\d+\.\d+\.\d+)\.tgz', html) and its rootless twin
\* (lines 103, 119): the versions of the page's links of one family, in page
\* order, repeats kept. A link is [family, version].
RECURSIVE FindAll(_, _)
FindAll(family, page) ==
    IF page = <<>> THEN <<>>
    ELSE (IF Head(page).family = family THEN <<Head(page).version>> ELSE <<>>)
         \o FindAll(family, Tail(page))

\* set(versions)
SetOf(seq) == {seq[i] : i \in 1..Len(seq)}

\* list_static_versions (lines 95-109): [] when the index cannot be read.
list_static_versions(answer) ==
    IF answer.ok THEN SortedDesc(SetOf(FindAll("docker", answer.page))) ELSE <<>>

\* list_rootless_versions (lines 111-124).
list_rootless_versions(answer) ==
    IF answer.ok THEN SortedDesc(SetOf(FindAll("docker-rootless-extras", answer.page)))
    ELSE <<>>

\* The architectures of arch_mapping (lines 29-40).
AllArchs == {"x86_64", "aarch64"}

\* The index could not be read, or no request was made.
NoIndex == [ok |-> FALSE, page |-> <<>>]

\* Faulty variant: with no version listed the resolver gives up.
FirstOr_none(avail, desired_version) ==
    IF avail # <<>> THEN avail[1] ELSE <<>>

\* avail[0] if avail else desired_version (lines 131-137).
FirstOr(avail, desired_version) ==
    IF avail # <<>> THEN avail[1] ELSE desired_version

\* Faulty variant: the desired version is returned without looking at the index.
resolve_static_version_for_arch_desired(exists, answer, desired_version) ==
    desired_version

\* resolve_static_version_for_arch (lines 126-137). exists is what
\* check_url_exists answered for the desired version's url, answer what the
\* index request of list_static_versions gave (read only when exists is False).
resolve_static_version_for_arch(exists, answer, desired_version) ==
    IF exists THEN desired_version
    ELSE FirstOr(list_static_versions(answer), desired_version)

\* ------------------------------------------------------- release assets
\* An asset name as its pieces: "docker-compose-", the system, "-", the
\* architecture token and what follows it ("" , ".exe", ".sha256").
AssetName(system, token, ext) == <<"docker-compose-", system, "-", token, ext>>

\* name.startswith("docker-compose-linux-") (line 204)
StartsWithLinux(name) == SubSeq(name, 1, 3) = <<"docker-compose-", "linux", "-">>

\* arch in name (line 205): the token occurs in the name.
Contains(name, token) == \E i \in 1..Len(name) : name[i] = token

\* alt (line 195)
Alt(arch) == IF arch = "x86_64" THEN <<"amd64">>
             ELSE IF arch = "aarch64" THEN <<"arm64">> ELSE <<>>

\* names (lines 194-198)
ExactNames(arch) ==
    {AssetName("linux", arch, ""), AssetName("linux", arch, ".exe")}
    \cup UNION {{AssetName("linux", Alt(arch)[i], ""), AssetName("linux", Alt(arch)[i], ".exe")}
                  : i \in 1..Len(Alt(arch))}

\* Line 202: any(name == n for n in names)
IsExact(name, arch) == name \in ExactNames(arch)

\* Lines 204-205: the substring match.
IsSubstring(name, arch) ==
    /\ StartsWithLinux(name)
    /\ (Contains(name, arch) \/ \E i \in 1..Len(Alt(arch)) : Contains(name, Alt(arch)[i]))

\* return None (lines 207, 210)
NoUrl == [family |-> "none", version |-> <<>>, arch |-> ""]

\* browser_download_url of the asset of that name.
AssetUrl(name) == [family |-> "asset", version |-> name, arch |-> ""]

RECURSIVE FirstMatch(_, _)
\* The loop of lines 199-207: the first asset, in the release's order, that
\* matches exactly or by substring.
FirstMatch(assets, arch) ==
    IF assets = <<>> THEN NoUrl
    ELSE IF IsExact(Head(assets), arch) THEN AssetUrl(Head(assets))
    ELSE IF IsSubstring(Head(assets), arch) THEN AssetUrl(Head(assets))
    ELSE FirstMatch(Tail(assets), arch)

\* get_compose_asset_url (lines 184-210): answer is what the release request
\* gave, [ok, assets]; None when it failed.
get_compose_asset_url(answer, arch) ==
    IF answer.ok THEN FirstMatch(answer.assets, arch) ELSE NoUrl

VARIABLES
    pc,        \* the statement the program is at
    files,     \* output_dir: file name -> content, for the files that exist
    stats,     \* self.download_stats
    df,        \* download_file's frame: filename, url, max_retries, attempt, ret
    dfResult,  \* download_file's return value and what it logged, until the
               \* caller has read it
    netlog,    \* what the current download_file invocation did to the world:
               \* urlopen calls made, the time.sleep durations between them,
               \* and whether the last answer was a 404
    okNames,   \* the file names for which download_file has returned True
    calls,     \* invocations made by the stand-alone driver
    rs,        \* the resolver's last call: arch, desired_version, what the
               \* probe and the index answered, and the version returned
    loc,       \* the locator's last call: arch, what the release request
               \* answered, and the url returned
    served,    \* the bodies a download response can deliver
    architectures,  \* self.architectures
    u,         \* update's locals; in u.done what each finished
               \* download_for_architecture call was given and returned, in
               \* u.cleaned what each cleanup_old_versions call was given
    dfa,       \* download_for_architecture's frame, and the requests and
               \* download_file calls it has made so far, in order
    docs       \* output_dir's documents: the lines of SHA256SUMS, the
               \* content of VERSION.json, and the log files by their mtime

vars == <<pc, files, stats, df, dfResult, netlog, okNames, calls, rs, loc,
          served, architectures, u, dfa, docs>>

\* What download_file never touches.
others == <<rs, loc, served, architectures, u, dfa, docs>>

\* ---------------------------------------------------------- download_file
NoFrame == [url |-> "none", filename |-> "none", max_retries |-> 0, attempt |-> 0,
            ret |-> "idle"]
NoResult == [ok |-> FALSE, outcome |-> "none", hash |-> -1, size |-> -1]
ZeroStats == [success |-> 0, failed |-> 0, skipped |-> 0, total_size |-> 0]
NoResolve == [arch |-> "none", desired |-> <<>>, exists |-> FALSE, answer |-> NoIndex,
              version |-> <<>>]
NoRelease == [ok |-> FALSE, assets |-> <<>>]
NoLocate == [version |-> <<>>, arch |-> "none", answer |-> NoRelease, url |-> NoUrl]

\* No request made and no sleep taken yet in this invocation.
NoRequests == [attempts |-> 0, delays |-> <<>>, notFound |-> FALSE]

\* return <value> from download_file: back to the caller.
Return(ok, outcome, hash, size) ==
    /\ dfResult' = [ok |-> ok, outcome |-> outcome, hash |-> hash, size |-> size]
    /\ okNames' = IF ok THEN okNames \cup {df.filename} ELSE okNames
    /\ pc' = df.ret

\* Lines 222-228: an existing destination is skipped without any request.
download_file_exists ==
    /\ pc = "df_exists"
    /\ IF Exists(files, df.filename)
       THEN /\ stats' = [stats EXCEPT !.skipped = @ + 1]
            /\ Return(TRUE, "skipped", -1, -1)
       ELSE /\ pc' = "df_for"
            /\ UNCHANGED <<stats, dfResult, okNames>>
    /\ UNCHANGED <<files, df, netlog, calls, others>>

\* Line 230, and lines 299-300 when the range is exhausted.
download_file_for ==
    /\ pc = "df_for"
    /\ IF df.attempt < df.max_retries
       THEN /\ pc' = "df_urlopen"
            /\ UNCHANGED <<stats, dfResult, okNames>>
       ELSE /\ stats' = [stats EXCEPT !.failed = @ + 1]
            /\ Return(FALSE, "failed", -1, -1)
    /\ UNCHANGED <<files, df, netlog, calls, others>>

\* The answers urlopen can give (line 242): a response, HTTPError 404,
\* HTTPError with another code, or any other exception (URLError, timeout).
OpenAnswers == {"ok", "http404", "httpError", "error"}

\* Faulty variant: a 404 is retried like any other HTTP error.
NoRetry_never(answer) == FALSE

\* e.code == 404 (line 284): the error that is not retried.
NoRetry(answer) == answer = "http404"

\* Lines 239-247 and the handlers of lines 282-291.
download_file_urlopen ==
    /\ pc = "df_urlopen"
    /\ \E answer \in OpenAnswers :
        /\ netlog' = [netlog EXCEPT !.attempts = @ + 1,
                                    !.notFound = (answer = "http404")]
        /\ CASE answer = "ok" ->
                 /\ files' = OpenWb(files, df.filename)
                 /\ pc' = "df_read"
                 /\ UNCHANGED <<stats, dfResult, okNames>>
              [] answer \in {"http404", "httpError"} /\ NoRetry(answer) ->
                 /\ stats' = [stats EXCEPT !.failed = @ + 1]
                 /\ Return(FALSE, "failed", -1, -1)
                 /\ UNCHANGED files
              [] answer \in {"http404", "httpError"} /\ ~NoRetry(answer) ->
                 /\ pc' = "df_backoff"
                 /\ UNCHANGED <<files, stats, dfResult, okNames>>
              [] answer = "error" ->
                 /\ files' = Unlink(files, df.filename)
                 /\ pc' = "df_backoff"
                 /\ UNCHANGED <<stats, dfResult, okNames>>
    /\ UNCHANGED <<df, calls, others>>

\* The blocks written so far are the beginning of body.
IsPrefix(written, body) ==
    /\ Len(written) <= Len(body)
    /\ \A i \in 1..Len(written) : written[i] = body[i]

\* Lines 248-254: one response.read(block_size): the next block of the body
\* being delivered, the end of the body, or an exception in mid-transfer
\* (lines 288-291).
download_file_read ==
    /\ pc = "df_read"
    /\ \/ \E body \in served :
            /\ IsPrefix(files[df.filename], body)
            /\ Len(files[df.filename]) < Len(body)
            /\ files' = WriteBlock(files, df.filename, body[Len(files[df.filename]) + 1])
            /\ pc' = "df_read"
       \/ /\ files[df.filename] \in served
          /\ pc' = "df_done"
          /\ UNCHANGED files
       \/ /\ files' = Unlink(files, df.filename)
          /\ pc' = "df_backoff"
    /\ UNCHANGED <<stats, df, dfResult, netlog, okNames, calls, others>>

\* Faulty variant: the size of the file is not read.
st_size_none(content) == 0

\* filepath.stat().st_size (line 270), in blocks.
st_size(content) == Len(content)

\* Lines 268-280: digest and size of the written file, the counters, True.
download_file_done ==
    /\ pc = "df_done"
    /\ LET file_hash == calculate_file_hash(files[df.filename])
           file_size == st_size(files[df.filename])
       IN  /\ stats' = [stats EXCEPT !.success = @ + 1, !.total_size = @ + file_size]
           /\ Return(TRUE, "downloaded", file_hash, file_size)
    /\ UNCHANGED <<files, df, netlog, calls, others>>

\* Lines 293-297: the exponential backoff before the next attempt.
download_file_backoff ==
    /\ pc = "df_backoff"
    /\ netlog' = IF SleepsAfter(df.attempt, df.max_retries)
                 THEN [netlog EXCEPT !.delays = Append(@, WaitTime(df.attempt))]
                 ELSE netlog
    /\ df' = [df EXCEPT !.attempt = @ + 1]
    /\ pc' = "df_for"
    /\ UNCHANGED <<files, stats, dfResult, okNames, calls, others>>

download_file ==
    \/ download_file_exists
    \/ download_file_for
    \/ download_file_urlopen
    \/ download_file_read
    \/ download_file_done
    \/ download_file_backoff

\* download_file(url, filename, description, max_retries) is entered.
Call(url, filename, max_retries, ret) ==
    /\ df' = [url |-> url, filename |-> filename, max_retries |-> max_retries,
              attempt |-> 0, ret |-> ret]
    /\ netlog' = NoRequests
    /\ dfResult' = NoResult
    /\ pc' = "df_exists"

\* The caller has read download_file's return value: the call is over.
Over ==
    /\ df' = NoFrame
    /\ netlog' = NoRequests
    /\ dfResult' = NoResult

\* ------------------------------------------------------------ file names
\* f"docker-{version}-{arch}.tgz" (line 394), f"docker-compose-linux-
\* {version}-{arch}" (line 405) and f"docker-rootless-extras-{version}-
\* {arch}.tgz" (lines 415, 428), kept as their three parts.
FileName(family, version, arch) == [family |-> family, version |-> version, arch |-> arch]

\* docker_url_template / rootless_url_template formatted (lines 43-45), and a
\* release asset's browser_download_url.
Url(family, version, arch) == [family |-> family, version |-> version, arch |-> arch]

\* ------------------------------------------- download_file, driven alone
\* The destinations and the url the stand-alone driver uses.
FetchNames == {FileName("docker", VersionText(27, 4, 1), "x86_64"),
               FileName("docker-rootless-extras", VersionText(27, 4, 1), "x86_64")}

NoUpdate == [docker_version |-> <<>>, compose_version |-> <<>>, total_success |-> 0,
             total_count |-> 0, i |-> 1, resolved_version |-> <<>>, done |-> <<>>,
             cleaned |-> <<>>, cleaned_logs |-> <<>>, ok |-> FALSE]

\* No SHA256SUMS, no VERSION.json, no log file.
NoInfo == [docker_version |-> <<>>, compose_version |-> <<>>, architectures |-> <<>>,
           download_stats |-> ZeroStats]
NoDocs == [SHA256SUMS |-> <<>>, VERSION |-> NoInfo, logs |-> {}]
NoArch == [arch |-> "none", docker_version |-> <<>>, compose_version |-> <<>>,
           results |-> <<>>, trace |-> <<>>, listing |-> NoIndex,
           success_count |-> 0, total_count |-> 0]

\* update() is not running.
NoRun ==
    /\ architectures = <<>>
    /\ u = NoUpdate
    /\ dfa = NoArch
    /\ docs = NoDocs

\* A caller invokes download_file with any destination and attempt budget.
Fetch ==
    /\ pc = "idle"
    /\ calls < MaxCalls
    /\ calls' = calls + 1
    /\ \E name \in FetchNames, max_retries \in 0..MaxRetries :
         Call(Url(name.family, name.version, name.arch), name, max_retries, "idle")
    /\ UNCHANGED <<files, stats, okNames, others>>

\* The output directory holds nothing, or one file left by an earlier run.
InitFetch ==
    /\ pc = "idle"
    /\ \E present \in {{}} \cup {{n} : n \in FetchNames} :
         files \in [present -> Contents]
    /\ stats = ZeroStats
    /\ df = NoFrame
    /\ dfResult = NoResult
    /\ netlog = NoRequests
    /\ okNames = {}
    /\ calls = 0
    /\ rs = NoResolve
    /\ loc = NoLocate
    /\ served = Contents
    /\ NoRun

NextFetch == Fetch \/ download_file

SpecFetch == InitFetch /\ [][NextFetch]_vars

\* -------------------------------------------------- the resolver, alone
\* The versions an index page given to the resolver alone can list, and the
\* versions it can be asked for.
ListedVersions == {VersionText(27, 4, 1), VersionText(27, 9, 0), VersionText(27, 10, 0)}
AskedVersions == ListedVersions \cup {VersionText(99, 0, 0)}

Links(versions) == [family : {"docker", "docker-rootless-extras"}, version : versions]

\* The index pages of at most n links.
Pages(versions, n) == UNION {[1..k -> Links(versions)] : k \in 0..n}

\* What the index request can give: no page, or a page.
IndexAnswers(versions, n) ==
    {NoIndex} \cup {[ok |-> TRUE, page |-> p] : p \in Pages(versions, n)}

\* No download has been made.
Quiet ==
    /\ files = << >>
    /\ stats = ZeroStats
    /\ df = NoFrame
    /\ dfResult = NoResult
    /\ netlog = NoRequests
    /\ okNames = {}
    /\ calls = 0
    /\ served = {}
    /\ NoRun

\* The resolver is asked for any desired version for any architecture, and
\* the probe and the index may answer anything.
InitResolve ==
    /\ pc = "resolver"
    /\ Quiet
    /\ \E arch \in AllArchs, desired \in AskedVersions, exists \in BOOLEAN,
          answer \in IndexAnswers(ListedVersions, MaxLinks) :
         rs = [arch |-> arch, desired |-> desired, exists |-> exists,
               answer |-> IF exists THEN NoIndex ELSE answer, version |-> <<>>]
    /\ loc = NoLocate

\* resolve_static_version_for_arch runs and returns.
Resolve ==
    /\ pc = "resolver"
    /\ rs' = [rs EXCEPT !.version =
                 resolve_static_version_for_arch(rs.exists, rs.answer, rs.desired)]
    /\ pc' = "resolved"
    /\ UNCHANGED <<files, stats, df, dfResult, netlog, okNames, calls, loc, served, architectures, docs, u, dfa>>

SpecResolve == InitResolve /\ [][Resolve]_vars

\* --------------------------------------------------- the locator, alone
\* The asset names a release given to the locator alone can hold.
AssetNames ==
    {AssetName(system, token, ext) :
       system \in {"linux", "darwin"},
       token \in {"x86_64", "aarch64", "amd64", "arm64", "armv7"},
       ext \in {"", ".exe", ".sha256"}}

\* What the release request can give: a failure, or the assets in the
\* release's order.
ReleaseAnswers(names, n) ==
    {NoRelease} \cup {[ok |-> TRUE, assets |-> l] : l \in UNION {[1..k -> names] : k \in 0..n}}

\* The compose versions asked for: the default of line 182.
ComposeVersions == {VersionText(2, 32, 4)}

\* The locator is asked for any architecture, and the release request may
\* answer anything.
InitLocate ==
    /\ pc = "locator"
    /\ Quiet
    /\ rs = NoResolve
    /\ \E version \in ComposeVersions, arch \in AllArchs,
          answer \in ReleaseAnswers(AssetNames, MaxAssets) :
         loc = [version |-> version, arch |-> arch, answer |-> answer, url |-> NoUrl]

\* get_compose_asset_url runs and returns.
Locate ==
    /\ pc = "locator"
    /\ loc' = [loc EXCEPT !.url = get_compose_asset_url(loc.answer, loc.arch)]
    /\ pc' = "located"
    /\ UNCHANGED <<files, stats, df, dfResult, netlog, okNames, calls, rs, served, architectures, docs, u, dfa>>

SpecLocate == InitLocate /\ [][Locate]_vars

\* ------------------------------------------- download_for_architecture
\* max_retries=3, the default every call in download_for_architecture uses.
DefaultMaxRetries == 3

\* self.docker_url_template.format(...), self.rootless_url_template.format(...)
docker_url(arch, version) == Url("docker", version, arch)
rootless_url(arch, version) == Url("docker-rootless-extras", version, arch)

\* One more entry in the record of what download_for_architecture did.
Traced(op, version, ok) ==
    [dfa EXCEPT !.trace = Append(@, [op |-> op, version |-> version, ok |-> ok])]

\* What the index and the release request can answer during update().
RunVersions == {VersionText(27, 9, 0), VersionText(27, 10, 0)}
RunPages ==
    {<<[family |-> "docker", version |-> VersionText(27, 9, 0)],
       [family |-> "docker-rootless-extras", version |-> VersionText(27, 9, 0)]>>,
     <<[family |-> "docker", version |-> VersionText(27, 9, 0)],
       [family |-> "docker-rootless-extras", version |-> VersionText(27, 9, 0)],
       [family |-> "docker", version |-> VersionText(27, 10, 0)],
       [family |-> "docker-rootless-extras", version |-> VersionText(27, 10, 0)]>>}
RunIndexAnswers == {NoIndex} \cup {[ok |-> TRUE, page |-> p] : p \in RunPages}
RunReleaseAnswers ==
    ReleaseAnswers({AssetName("linux", "x86_64", ""), AssetName("linux", "aarch64", "")}, 1)

\* Lines 393-399: the runtime archive is fetched.
dfa_runtime ==
    /\ pc = "a_runtime"
    /\ Call(docker_url(dfa.arch, dfa.docker_version),
            FileName("docker", dfa.docker_version, dfa.arch), DefaultMaxRetries, "a_compose")
    /\ UNCHANGED <<files, stats, okNames, calls, others>>

\* Lines 399-412: the runtime result is recorded, the compose asset is
\* located and, when one is found, fetched.
dfa_compose ==
    /\ pc = "a_compose"
    /\ \E answer \in RunReleaseAnswers :
         LET url == get_compose_asset_url(answer, dfa.arch)
             done == [Traced("runtime", dfa.docker_version, dfResult.ok)
                        EXCEPT !.results = Append(@, dfResult.ok)]
         IN  /\ loc' = [version |-> dfa.compose_version, arch |-> dfa.arch,
                         answer |-> answer, url |-> url]
             /\ IF url # NoUrl
                THEN /\ dfa' = [done EXCEPT !.trace =
                                  Append(@, [op |-> "locate", version |-> dfa.compose_version,
                                             ok |-> TRUE])]
                     /\ Call(url, FileName("docker-compose-linux", dfa.compose_version,
                                           dfa.arch), DefaultMaxRetries, "a_compose_ret")
                ELSE /\ dfa' = [done EXCEPT
                                  !.trace = Append(@, [op |-> "locate",
                                                       version |-> dfa.compose_version,
                                                       ok |-> FALSE]),
                                  !.results = Append(@, FALSE)]
                     /\ pc' = "a_rootless"
                     /\ Over
    /\ UNCHANGED <<files, stats, okNames, calls, rs, served, architectures, docs, u>>

\* Lines 406-410: the compose result is recorded (os.chmod changes no content).
dfa_compose_ret ==
    /\ pc = "a_compose_ret"
    /\ dfa' = [Traced("compose", dfa.compose_version, dfResult.ok)
                 EXCEPT !.results = Append(@, dfResult.ok)]
    /\ pc' = "a_rootless"
    /\ Over
    /\ UNCHANGED <<files, stats, okNames, calls, rs, loc, served, architectures, docs, u>>

\* Lines 414-420: the rootless-extras archive is fetched.
dfa_rootless ==
    /\ pc = "a_rootless"
    /\ Call(rootless_url(dfa.arch, dfa.docker_version),
            FileName("docker-rootless-extras", dfa.docker_version, dfa.arch),
            DefaultMaxRetries, "a_rootless_ret")
    /\ UNCHANGED <<files, stats, okNames, calls, others>>

\* Faulty variant: the fallback is tried whatever the primary fetch returned.
FallsBack_always(ok) == TRUE

\* The else of line 422 is taken: the primary fetch returned False.
FallsBack(ok) == ~ok

\* Lines 420-435: the rootless result is recorded; after a failure the index
\* is listed and the newest rootless version, if any, is fetched.
dfa_rootless_ret ==
    /\ pc = "a_rootless_ret"
    /\ IF ~FallsBack(dfResult.ok)
       THEN /\ dfa' = [Traced("rootless", dfa.docker_version, dfResult.ok)
                         EXCEPT !.results = Append(@, TRUE)]
            /\ pc' = "a_return"
            /\ Over
       ELSE \E answer \in RunIndexAnswers :
              LET avail_rootless == list_rootless_versions(answer)
                  done == [Traced("rootless", dfa.docker_version, dfResult.ok)
                             EXCEPT !.listing = answer]
              IN  IF avail_rootless # <<>>
                  THEN /\ dfa' = [done EXCEPT !.trace =
                                    Append(@, [op |-> "list_rootless",
                                               version |-> avail_rootless[1], ok |-> TRUE])]
                       /\ Call(rootless_url(dfa.arch, avail_rootless[1]),
                               FileName("docker-rootless-extras", avail_rootless[1],
                                        dfa.arch), DefaultMaxRetries, "a_fallback_ret")
                  ELSE /\ dfa' = [done EXCEPT
                                    !.trace = Append(@, [op |-> "list_rootless",
                                                         version |-> <<>>, ok |-> FALSE]),
                                    !.results = Append(@, FALSE)]
                       /\ pc' = "a_return"
                       /\ Over
    /\ UNCHANGED <<files, stats, okNames, calls, rs, loc, served, architectures, docs, u>>

\* Line 433: the result of the fallback fetch is the slot's result.
dfa_fallback_ret ==
    /\ pc = "a_fallback_ret"
    /\ dfa' = [Traced("rootless_fallback", df.filename.version, dfResult.ok)
                 EXCEPT !.results = Append(@, dfResult.ok)]
    /\ pc' = "a_return"
    /\ Over
    /\ UNCHANGED <<files, stats, okNames, calls, rs, loc, served, architectures, docs, u>>

\* Faulty variant: every slot is counted as a success.
Sum_all(results) == Len(results)

RECURSIVE Sum(_)
\* sum(results) (line 437): True counts 1.
Sum(results) ==
    IF results = <<>> THEN 0
    ELSE (IF Head(results) THEN 1 ELSE 0) + Sum(Tail(results))

\* Lines 437-443: return success_count, total_count.
dfa_return ==
    /\ pc = "a_return"
    /\ dfa' = [dfa EXCEPT !.success_count = Sum(dfa.results),
                          !.total_count = Len(dfa.results)]
    /\ pc' = "u_add"
    /\ UNCHANGED <<files, stats, df, dfResult, netlog, okNames, calls, rs, loc, served,
                   architectures, docs, u>>

download_for_architecture ==
    \/ dfa_runtime
    \/ dfa_compose
    \/ dfa_compose_ret
    \/ dfa_rootless
    \/ dfa_rootless_ret
    \/ dfa_fallback_ret
    \/ dfa_return

\* ------------------------------------------------- file names as text
\* The characters of the words the file names are built from.
Text(word) ==
    CASE word = "docker" -> <<"d", "o", "c", "k", "e", "r">>
      [] word = "docker-rootless-extras" -> <<"d", "o", "c", "k", "e", "r", "-", "r", "o", "o", "t", "l", "e", "s", "s", "-", "e", "x", "t", "r", "a", "s">>
      [] word = "docker-compose-linux" -> <<"d", "o", "c", "k", "e", "r", "-", "c", "o", "m", "p", "o", "s", "e", "-", "l", "i", "n", "u", "x">>
      [] word = "x86_64" -> <<"x", "8", "6", "_", "6", "4">>
      [] word = "aarch64" -> <<"a", "a", "r", "c", "h", "6", "4">>
      [] word = ".tgz" -> <<".", "t", "g", "z">>
      [] word = "containerd" -> <<"c", "o", "n", "t", "a", "i", "n", "e", "r", "d">>

\* The extension the f-strings of lines 394, 405, 415 give each family.
Ext(family) == IF family = "docker-compose-linux" THEN <<>> ELSE Text(".tgz")

\* file.name: f"docker-{version}-{arch}.tgz" and the like, character by
\* character.
NameText(name) ==
    Text(name.family) \o <<"-">> \o name.version \o <<"-">> \o Text(name.arch)
      \o Ext(name.family)

Letters == <<"a", "b", "c", "d", "e", "f", "g", "h", "i", "j", "k", "l", "m", "n", "o", "p", "q", "r", "s", "t", "u", "v", "w", "x", "y", "z">>

\* ord(c) for the characters of a file name.
Ord(c) ==
    IF c = "-" THEN 45
    ELSE IF c = "_" THEN 95
    ELSE IF \E i \in 1..Len(Letters) : Letters[i] = c
         THEN 96 + (CHOOSE i \in 1..Len(Letters) : Letters[i] = c)
    ELSE CharCode(c)

\* Path.suffix: the name from its last dot on, '' when there is no dot or
\* the last dot begins or ends the name.
Suffix(text) ==
    LET dots == {i \in 1..Len(text) : text[i] = "."}
    IN  IF dots = {} THEN <<>>
        ELSE LET i == CHOOSE d \in dots : \A e \in dots : e <= d
             IN  IF i = 1 \/ i = Len(text) THEN <<>> ELSE SubSeq(text, i, Len(text))

\* text.startswith(prefix), text.endswith(tail)
StartsWith(text, prefix) ==
    Len(prefix) <= Len(text) /\ SubSeq(text, 1, Len(prefix)) = prefix
EndsWith(text, tail) ==
    Len(tail) <= Len(text) /\ SubSeq(text, Len(text) - Len(tail) + 1, Len(text)) = tail

\* Faulty variant: the glob looks at the beginning of the name only.
Glob_prefix(prefix, tail, text) == StartsWith(text, prefix)

\* Path.glob(prefix + "*" + tail) accepts this file name.
Glob(prefix, tail, text) ==
    /\ Len(prefix) + Len(tail) <= Len(text)
    /\ StartsWith(text, prefix)
    /\ EndsWith(text, tail)

NoMatch == <<>>

\* re.match(prefix + r'(\d+\.\d+\.\d+)-.+' + ext, file.name).group(1), or
\* NoMatch: the pattern is anchored at the start of the name only. e1, e2
\* and e3 are the positions of the last digit of the three numbers: each \d+
\* is followed by a character that is no digit, so it takes the whole run.
MatchVersion(prefix, ext, text) ==
    LET p == Len(prefix)
        \* where the digits that begin at position a end
        RunEnd(a) == CHOOSE e \in (a - 1)..Len(text) :
                        /\ e = Len(text) \/ text[e + 1] \notin DigitSet
                        /\ \A i \in a..e : text[i] \in DigitSet
        e1 == RunEnd(p + 1)
        e2 == RunEnd(e1 + 2)
        e3 == RunEnd(e2 + 2)
    IN  IF /\ StartsWith(text, prefix)
           /\ e1 > p /\ e1 < Len(text) /\ text[e1 + 1] = "."
           /\ e2 > e1 + 1 /\ e2 < Len(text) /\ text[e2 + 1] = "."
           /\ e3 > e2 + 1 /\ e3 < Len(text) /\ text[e3 + 1] = "-"
           /\ \E k \in (e3 + 3)..(Len(text) - Len(ext) + 1) :
                 SubSeq(text, k, k + Len(ext) - 1) = ext
        THEN SubSeq(text, p + 1, e3)
        ELSE NoMatch

\* ------------------------------------------------- cleanup_old_versions
\* One of the three loops of cleanup_old_versions (lines 309-341): the files
\* the glob lists, whose name the pattern matches and whose version is not
\* the current one.
Stale(fs, family, ext, arch, current) ==
    {n \in DOMAIN fs :
       \E text \in {NameText(n)}, prefix \in {Text(family) \o <<"-">>} :
         /\ Glob(prefix, <<"-">> \o Text(arch) \o ext, text)
         /\ \E version \in {MatchVersion(prefix, ext, text)} :
               version # NoMatch /\ version # current}

\* The files left when those of S are unlinked.
Remove(fs, S) == [g \in (DOMAIN fs) \ S |-> fs[g]]

\* The files an unlink that raises can leave undeleted: the first failure
\* ends the call (the try of line 305 wraps all three loops), and glob gives
\* the files of one loop in any order.
Interrupted(done, due) == {done \cup X : X \in (SUBSET due) \ {due}}

\* cleanup_old_versions(current_docker_version, current_compose_version,
\* arch), lines 302-344: the sets of files it can have deleted, and whether
\* it logged an error.
cleanup_old_versions(fs, current_docker_version, current_compose_version, arch) ==
    UNION {UNION {UNION {
      {[deleted |-> docker_files \cup rootless_files \cup compose_files,
        error |-> FALSE]}
      \cup {[deleted |-> D, error |-> TRUE] :
               D \in Interrupted({}, docker_files)
                     \cup Interrupted(docker_files, rootless_files)
                     \cup Interrupted(docker_files \cup rootless_files, compose_files)} :
        compose_files \in
          {Stale(Remove(fs, docker_files \cup rootless_files),
                 "docker-compose-linux", <<>>, arch, current_compose_version)}} :
        rootless_files \in
          {Stale(Remove(fs, docker_files), "docker-rootless-extras", Text(".tgz"),
                 arch, current_docker_version)}} :
        docker_files \in
          {Stale(fs, "docker", Text(".tgz"), arch, current_docker_version)}}

\* What one cleanup_old_versions call was given and did.
Cleaned(arch, current_docker_version, current_compose_version, outcome) ==
    [arch |-> arch, docker_version |-> current_docker_version,
     compose_version |-> current_compose_version,
     deleted |-> outcome.deleted, error |-> outcome.error]

\* ------------------------------------- cleanup_old_versions, driven alone
\* The greatest minor version among the files of the directory.
MaxMinor == 2

\* The files the directory can hold: runtime archives of 1.0.0 .. 1.MaxMinor.0
\* for x86_64 and one for aarch64, rootless-extras archives, compose
\* binaries, an archive whose version has two parts only, and an archive of
\* another family.
CleanNames ==
    {FileName("docker", VersionText(1, m, 0), "x86_64") : m \in 0..MaxMinor}
    \cup {FileName("docker", VersionText(1, 0, 0), "aarch64"),
          FileName("docker-rootless-extras", VersionText(1, 0, 0), "x86_64"),
          FileName("docker-rootless-extras", VersionText(1, MaxMinor, 0), "x86_64"),
          FileName("docker-compose-linux", VersionText(2, 0, 0), "x86_64"),
          FileName("docker-compose-linux", VersionText(2, 1, 0), "x86_64"),
          FileName("docker", <<"1", ".", "0">>, "x86_64"),
          FileName("containerd", VersionText(1, 0, 0), "x86_64")}

\* The current versions a caller passes.
CleanDockerVersions == {VersionText(1, 0, 0), VersionText(1, MaxMinor, 0)}
CleanComposeVersions == {VersionText(2, 1, 0)}

\* The output directory holds any of these files.
InitCleanup ==
    /\ pc = "cleaner"
    /\ \E present \in SUBSET CleanNames : files = [n \in present |-> <<1>>]
    /\ stats = ZeroStats
    /\ df = NoFrame
    /\ dfResult = NoResult
    /\ netlog = NoRequests
    /\ okNames = {}
    /\ calls = 0
    /\ served = {}
    /\ rs = NoResolve
    /\ loc = NoLocate
    /\ NoRun

\* cleanup_old_versions is called with any current versions and architecture,
\* and returns.
Cleanup ==
    /\ pc = "cleaner"
    /\ \E arch \in AllArchs, current_docker_version \in CleanDockerVersions,
          current_compose_version \in CleanComposeVersions :
         \E outcome \in cleanup_old_versions(files, current_docker_version,
                                             current_compose_version, arch) :
           /\ files' = Remove(files, outcome.deleted)
           /\ u' = [u EXCEPT !.cleaned = Append(@, Cleaned(arch, current_docker_version,
                                                           current_compose_version, outcome))]
    /\ pc' = "cleaned"
    /\ UNCHANGED <<stats, df, dfResult, netlog, okNames, calls, rs, loc, served,
                   architectures, docs, dfa>>

SpecCleanup == InitCleanup /\ [][Cleanup]_vars

\* ------------------------------------------------------------ cleanup_logs
\* keep_count of line 477.
KeepCount == 3

\* Largest number of log files earlier runs have left.
MaxOldLogs == 3
\* Latest modification time of a log file an earlier run has left.
MaxMtime == 2

\* A log file is its name and its st_mtime. The name carries the second its
\* run began (line 48), here a number: earlier runs' logs are 1..MaxOldLogs,
\* and self.log_file, this run's, comes after them.
log_file == MaxOldLogs + 1

\* datetime.now() at a write of this run: later than every modification the
\* directory has seen.
Now(logs) ==
    1 + (CHOOSE m \in {0} \cup {l.mtime : l \in logs} : \A l \in logs : l.mtime <= m)

\* log() (lines 58-77): open(self.log_file, "a") creates the file when it is
\* not there, and the write sets its st_mtime.
log(logs) ==
    {l \in logs : l.name # log_file} \cup {[name |-> log_file, mtime |-> Now(logs)]}

\* sorted(glob("update_log_*.txt"), key=st_mtime, reverse=True): glob lists
\* in any order and the sort is stable, so logs of one st_mtime come in any
\* order. The lists it can give.
NewestFirst(logs) ==
    {sorted \in [1..Cardinality(logs) -> logs] :
       \A i, j \in 1..Cardinality(logs) :
         i < j => sorted[i] # sorted[j] /\ sorted[i].mtime >= sorted[j].mtime}

\* cleanup_logs(keep_count), lines 346-353: logs[keep_count:] are unlinked
\* in turn, each unlink followed by a log() line; a stat or an unlink that
\* raises ends the call with a log() line of the error. The logs that can be
\* left, and whether the call met an error.
cleanup_logs(logs, keep_count) ==
    UNION {IF Len(sorted) <= keep_count
           THEN {[logs |-> logs, error |-> FALSE], [logs |-> log(logs), error |-> TRUE]}
           ELSE {[logs |-> log(logs \ {sorted[i] : i \in (keep_count + 1)..k}),
                  error |-> k < Len(sorted)] : k \in keep_count..Len(sorted)} :
             sorted \in NewestFirst(logs)}

\* What one cleanup_logs call was given and met.
CleanedLogs(logs, keep_count, outcome) ==
    [before |-> logs, keep_count |-> keep_count, error |-> outcome.error]

\* ---------------------------------------------- cleanup_logs, driven alone
\* This run has written to its log; earlier runs have left any of their
\* logs, modified at any time.
InitLogs ==
    /\ pc = "logger"
    /\ files = << >>
    /\ stats = ZeroStats
    /\ df = NoFrame
    /\ dfResult = NoResult
    /\ netlog = NoRequests
    /\ okNames = {}
    /\ calls = 0
    /\ served = {}
    /\ rs = NoResolve
    /\ loc = NoLocate
    /\ architectures = <<>>
    /\ u = NoUpdate
    /\ dfa = NoArch
    /\ \E mtime \in [1..MaxOldLogs -> 0..MaxMtime] :
         docs = [NoDocs EXCEPT !.logs =
                   log({[name |-> n, mtime |-> mtime[n]] :
                          n \in {o \in 1..MaxOldLogs : mtime[o] > 0}})]

\* cleanup_logs is called with any keep_count, and returns.
CleanupLogs ==
    /\ pc = "logger"
    /\ \E keep_count \in 0..(MaxOldLogs + 1) :
         \E outcome \in cleanup_logs(docs.logs, keep_count) :
           /\ docs' = [docs EXCEPT !.logs = outcome.logs]
           /\ u' = [u EXCEPT !.cleaned_logs =
                                Append(@, CleanedLogs(docs.logs, keep_count, outcome))]
    /\ pc' = "logged"
    /\ UNCHANGED <<files, stats, df, dfResult, netlog, okNames, calls, rs, loc, served,
                   architectures, dfa>>

SpecLogs == InitLogs /\ [][CleanupLogs]_vars

\* --------------------------------------------------- create_checksums_file
\* The order of two names in sorted(): that of their text, character by
\* character.
NameBefore(x, y) ==
    \E a \in {[i \in 1..Len(t) |-> Ord(t[i])] : t \in {NameText(x)}},
       b \in {[i \in 1..Len(t) |-> Ord(t[i])] : t \in {NameText(y)}} :
      SeqLess(a, b)

\* sorted(self.output_dir.glob("*")): the names in the order of their text.
SortedNames(S) ==
    [i \in 1..Cardinality(S) |->
       CHOOSE x \in S : Cardinality({y \in S : NameBefore(y, x)}) = i - 1]

\* create_checksums_file (lines 371-382): a line for each file whose suffix
\* is '.tgz' or ''. SHA256SUMS itself is left out by name (line 378);
\* VERSION.json and the logs have the suffixes .json and .txt.
create_checksums_file(fs) ==
    CHOOSE lines \in
      {[i \in DOMAIN listed |->
          [sha256 |-> calculate_file_hash(fs[listed[i]]), name |-> listed[i]]] :
         listed \in {SortedNames({n \in DOMAIN fs :
                                    \E text \in {NameText(n)} :
                                      Suffix(text) \in {Text(".tgz"), <<>>}})}} : TRUE

\* ---------------------------------------------------------------- update
\* The versions get_latest_docker_version and get_latest_compose_version
\* can return.
LatestDockerVersions == {VersionText(27, 10, 0)}

\* Lines 447-457: the first log line creates this run's log file, and the
\* latest versions are fetched.
update_versions ==
    /\ pc = "u_start"
    /\ \E docker_version \in LatestDockerVersions, compose_version \in ComposeVersions :
         u' = [u EXCEPT !.docker_version = docker_version,
                        !.compose_version = compose_version,
                        !.total_success = 0, !.total_count = 0, !.i = 1]
    /\ docs' = [docs EXCEPT !.logs = log(@)]
    /\ pc' = "u_for"
    /\ UNCHANGED <<files, stats, df, dfResult, netlog, okNames, calls, rs, loc, served,
                   architectures, dfa>>

\* Lines 460-461: the next architecture's version is resolved; after the last
\* architecture the loop ends.
update_for ==
    /\ pc = "u_for"
    /\ IF u.i <= Len(architectures)
       THEN \E exists \in BOOLEAN, answer \in RunIndexAnswers :
              LET version == resolve_static_version_for_arch(exists, answer, u.docker_version)
              IN  /\ rs' = [arch |-> architectures[u.i], desired |-> u.docker_version,
                            exists |-> exists,
                            answer |-> IF exists THEN NoIndex ELSE answer,
                            version |-> version]
                  /\ u' = [u EXCEPT !.resolved_version = version]
                  /\ pc' = "u_call"
       ELSE /\ pc' = "u_checksums"
            /\ UNCHANGED <<rs, u>>
    /\ UNCHANGED <<files, stats, df, dfResult, netlog, okNames, calls, loc, served,
                   architectures, docs, dfa>>

\* Line 462: download_for_architecture(arch, resolved_version, compose_version)
update_call ==
    /\ pc = "u_call"
    /\ dfa' = [arch |-> architectures[u.i], docker_version |-> u.resolved_version,
               compose_version |-> u.compose_version, results |-> <<>>, trace |-> <<>>,
               listing |-> NoIndex, success_count |-> 0, total_count |-> 0]
    /\ pc' = "a_runtime"
    /\ UNCHANGED <<files, stats, df, dfResult, netlog, okNames, calls, rs, loc, served,
                   architectures, docs, u>>

\* Lines 462-464: the counts returned are added to the totals; the calls of
\* this iteration are over, and what they used and gave is kept in u.done.
update_add ==
    /\ pc = "u_add"
    /\ u' = [u EXCEPT !.total_success = @ + dfa.success_count,
                      !.total_count = @ + dfa.total_count,
                      !.i = @ + 1,
                      !.done = Append(@, [arch |-> dfa.arch,
                                          docker_version |-> dfa.docker_version,
                                          results |-> dfa.results])]
    /\ dfa' = NoArch
    /\ rs' = NoResolve
    /\ loc' = NoLocate
    /\ pc' = "u_for"
    /\ UNCHANGED <<files, stats, df, dfResult, netlog, okNames, calls, served,
                   architectures, docs>>

\* Line 467: create_checksums_file().
update_checksums ==
    /\ pc = "u_checksums"
    /\ docs' = [docs EXCEPT !.SHA256SUMS = create_checksums_file(files)]
    /\ pc' = "u_version"
    /\ UNCHANGED <<files, stats, df, dfResult, netlog, okNames, calls, rs, loc, served,
                   architectures, u, dfa>>

\* create_version_info(docker_version, compose_version), lines 355-369; the
\* update_date is left out.
create_version_info(docker_version, compose_version) ==
    [docker_version |-> docker_version, compose_version |-> compose_version,
     architectures |-> architectures, download_stats |-> stats]

\* Line 470: create_version_info(docker_version, compose_version); the
\* cleanup loop starts at the first architecture.
update_version_info ==
    /\ pc = "u_version"
    /\ docs' = [docs EXCEPT !.VERSION = create_version_info(u.docker_version,
                                                            u.compose_version)]
    /\ u' = [u EXCEPT !.i = 1]
    /\ pc' = "u_cleanup"
    /\ UNCHANGED <<files, stats, df, dfResult, netlog, okNames, calls, rs, loc, served,
                   architectures, dfa>>

\* Lines 473-475: the next architecture's version is resolved anew and its
\* old files are cleaned up; after the last architecture the loop ends.
update_cleanup ==
    /\ pc = "u_cleanup"
    /\ IF u.i <= Len(architectures)
       THEN \E exists \in BOOLEAN, answer \in RunIndexAnswers :
              \E resolved_docker_version \in
                   {resolve_static_version_for_arch(exists, answer, u.docker_version)} :
                  \E outcome \in cleanup_old_versions(files, resolved_docker_version,
                                                      u.compose_version, architectures[u.i]) :
                    /\ files' = Remove(files, outcome.deleted)
                    /\ u' = [u EXCEPT !.i = @ + 1,
                                      !.cleaned = Append(@, Cleaned(architectures[u.i],
                                                                    resolved_docker_version,
                                                                    u.compose_version, outcome))]
                    /\ pc' = "u_cleanup"
       ELSE /\ pc' = "u_logs"
            /\ UNCHANGED <<files, u>>
    /\ UNCHANGED <<stats, df, dfResult, netlog, okNames, calls, rs, loc, served,
                   architectures, docs, dfa>>

\* Line 477: cleanup_logs(keep_count=3).
update_cleanup_logs ==
    /\ pc = "u_logs"
    /\ \E outcome \in cleanup_logs(docs.logs, KeepCount) :
         /\ docs' = [docs EXCEPT !.logs = outcome.logs]
         /\ u' = [u EXCEPT !.cleaned_logs =
                              Append(@, CleanedLogs(docs.logs, KeepCount, outcome))]
    /\ pc' = "u_return"
    /\ UNCHANGED <<files, stats, df, dfResult, netlog, okNames, calls, rs, loc, served,
                   architectures, dfa>>

\* Faulty variant: one succeeded slot is enough.
update_result_some(total_success, total_count) == total_success > 0 \/ total_count = 0

\* return total_success == total_count (line 497); main exits with 0 when it
\* is True and with 1 otherwise (line 552).
update_result(total_success, total_count) == total_success = total_count

\* Lines 479-497: the summary is logged and total_success == total_count
\* is returned.
update_return ==
    /\ pc = "u_return"
    /\ u' = [u EXCEPT !.ok = update_result(u.total_success, u.total_count)]
    /\ pc' = "done"
    /\ UNCHANGED <<files, stats, df, dfResult, netlog, okNames, calls, rs, loc, served,
                   architectures, docs, dfa>>

\* Log files earlier runs left, each modified later than the one before.
OldLogs == {[name |-> n, mtime |-> n] : n \in 1..KeepCount}

\* The artifacts an earlier run can have left in the output directory.
OldNames ==
    {FileName("docker", VersionText(27, 9, 0), "x86_64"),
     FileName("docker-rootless-extras", VersionText(27, 10, 0), "x86_64")}

\* The bodies the servers hold during update().
RunBodies == {<<1>>}

\* After __init__ (lines 20-56): the counters are zero, the output directory
\* holds what earlier runs left in it.
Init ==
    /\ pc = "u_start"
    /\ \E present \in {{}} \cup {{n} : n \in OldNames} :
         files = [n \in present |-> <<1>>]
    /\ stats = ZeroStats
    /\ df = NoFrame
    /\ dfResult = NoResult
    /\ netlog = NoRequests
    /\ okNames = {}
    /\ calls = 0
    /\ rs = NoResolve
    /\ loc = NoLocate
    /\ served = RunBodies
    /\ architectures \in {<<"x86_64">>, <<"x86_64", "aarch64">>}
    /\ u = NoUpdate
    /\ dfa = NoArch
    /\ docs = [NoDocs EXCEPT !.logs = OldLogs]

Next ==
    \/ update_versions
    \/ update_for
    \/ update_call
    \/ update_add
    \/ update_checksums
    \/ update_version_info
    \/ update_cleanup
    \/ update_cleanup_logs
    \/ update_return
    \/ download_for_architecture
    \/ download_file

Spec == Init /\ [][Next]_vars

\* update() is one sequential thread: every request has a timeout, every
\* loop is bounded and no statement blocks, so a step that can be taken is
\* taken. The run starts with both architectures and an empty directory.
InitLive ==
    /\ Init
    /\ files = << >>
    /\ architectures = <<"x86_64", "aarch64">>

SpecLive == InitLive /\ [][Next]_vars /\ WF_vars(Next)

\* ================================================================= claims
\* download_file has returned to its caller and nothing has run since.
Returned == pc = df.ret /\ dfResult.outcome # "none"

\* download_file is at its first statement.
Entered == pc = "df_exists"

\* C1: an invocation that finds its destination in the output directory
\* returns True in one step, adds one to 'skipped' and to nothing else,
\* makes no request and leaves every file as it was; and a destination for
\* which an earlier invocation returned True is always skipped.
C1_SkipExisting ==
    [][(Entered /\ (df.filename \in DOMAIN files \/ df.filename \in okNames))
        => /\ pc' = df.ret
           /\ dfResult'.ok /\ dfResult'.outcome = "skipped"
           /\ stats' = [stats EXCEPT !.skipped = @ + 1]
           /\ netlog'.attempts = 0 /\ netlog.attempts = 0
           /\ files' = files]_vars

\* C1 witness: a second invocation for a destination the first one downloaded
\* has been skipped.
C1_Witness ==
    /\ Returned /\ dfResult.outcome = "skipped"
    /\ stats.success = 1 /\ stats.skipped = 1
    /\ df.filename \in okNames /\ netlog.attempts = 0

\* C2: no invocation makes more than max_retries requests; the k-th sleep of
\* an invocation (k from 0) lasts 2^k, so the sleeps never shorten; and an
\* invocation that fails without ever receiving a 404 has made exactly
\* max_retries requests, with a sleep after each but the last.
C2_RetryBound ==
    /\ netlog.attempts <= df.max_retries
    /\ \A k \in 1..Len(netlog.delays) : netlog.delays[k] = Pow2(k - 1)
    /\ \A k \in 1..(Len(netlog.delays) - 1) : netlog.delays[k] <= netlog.delays[k + 1]
    /\ (Returned /\ dfResult.outcome = "failed" /\ ~netlog.notFound)
         => /\ ~dfResult.ok
            /\ netlog.attempts = df.max_retries
            /\ Len(netlog.delays) = IF df.max_retries = 0 THEN 0 ELSE df.max_retries - 1

\* C2 witness: three retryable failures in a row, with sleeps of 1 and 2.
C2_Witness ==
    /\ Returned /\ dfResult.outcome = "failed" /\ ~netlog.notFound
    /\ df.max_retries = 3 /\ netlog.attempts = 3 /\ netlog.delays = <<1, 2>>

\* C3: once a request is answered 404 the invocation has returned False, with
\* 'failed' as its outcome and no sleep after that request: the requests made
\* are one more than the sleeps taken, so a 404 on the first request means
\* exactly one request.
C3_NotFoundNoRetry ==
    netlog.notFound
      => /\ Returned /\ ~dfResult.ok /\ dfResult.outcome = "failed"
         /\ netlog.attempts = Len(netlog.delays) + 1
         /\ (netlog.delays = <<>> => netlog.attempts = 1)

\* C3 witness: a 404 on the first request of an invocation allowed three.
C3_Witness ==
    /\ netlog.notFound /\ Returned /\ df.max_retries = 3
    /\ netlog.attempts = 1 /\ netlog.delays = <<>>

\* C4: when download_file has returned True the destination exists, and for
\* a downloaded file the digest and size it reported are those of the file as
\* it stands after the transfer.
C4_SuccessFilePresent ==
    (Returned /\ dfResult.ok)
      => /\ df.filename \in DOMAIN files
         /\ dfResult.outcome \in {"downloaded", "skipped"}
         /\ dfResult.outcome = "downloaded"
              => /\ dfResult.hash = HashFrom(7, files[df.filename])
                 /\ dfResult.size = Len(files[df.filename])

\* C4 witness: a download of two blocks has returned True.
C4_Witness ==
    /\ Returned /\ dfResult.ok /\ dfResult.outcome = "downloaded"
    /\ dfResult.size = 2 /\ df.filename \in DOMAIN files

\* The versions the index listed for the runtime family, repeats dropped.
Listed == {rs.answer.page[i].version :
             i \in {j \in 1..Len(rs.answer.page) : rs.answer.page[j].family = "docker"}}

\* (major, minor, patch) of v below that of w, each part compared as a number.
NumericBelow(v, w) ==
    LET a == VersionKey(v)
        b == VersionKey(w)
    IN  \/ a[1] < b[1]
        \/ a[1] = b[1] /\ a[2] < b[2]
        \/ a[1] = b[1] /\ a[2] = b[2] /\ a[3] < b[3]

\* The version returned is listed, and no listed version is above it.
GreatestListed ==
    /\ rs.version \in Listed
    /\ \A w \in Listed : ~NumericBelow(rs.version, w)

\* C5 as stated: the resolver returns the desired version when its url
\* exists, and otherwise always the numerically greatest listed version; never
\* an empty value.
C5_Original ==
    pc = "resolved"
      => /\ rs.exists => rs.version = rs.desired
         /\ ~rs.exists => GreatestListed
         /\ rs.version # <<>>

\* C5 amended: the resolver returns the desired version when its url exists;
\* otherwise the numerically greatest version of the listing when the listing
\* holds one, and the desired version unchanged when the index cannot be read
\* or lists no runtime version; never an empty value.
C5_ResolverResult ==
    pc = "resolved"
      => /\ rs.exists => rs.version = rs.desired
         /\ (~rs.exists /\ Listed # {}) => GreatestListed
         /\ (~rs.exists /\ Listed = {}) => rs.version = rs.desired
         /\ rs.version # <<>>

\* C5 witness: 99.0.0 does not exist, the index lists 27.9.0 and 27.10.0 (and
\* 27.9.0 twice), and 27.10.0 is returned.
C5_Witness ==
    /\ pc = "resolved" /\ ~rs.exists
    /\ rs.desired = VersionText(99, 0, 0)
    /\ Len(rs.answer.page) = 3
    /\ Listed = {VersionText(27, 9, 0), VersionText(27, 10, 0)}
    /\ rs.version = VersionText(27, 10, 0)

\* download_for_architecture has just been called by update(), or is calling
\* download_file for its runtime or its primary rootless-extras archive.
UsesRuntimeVersion ==
    \/ pc = "a_runtime"
    \/ Entered /\ df.ret \in {"a_compose", "a_rootless_ret"}

\* The runtime version in use at such a point.
VersionInUse == IF pc = "a_runtime" THEN dfa.docker_version ELSE df.url.version

\* The probe of the version's url succeeded, or the index listed the version.
ConfirmedToExist(version) ==
    \/ rs.exists /\ version = rs.desired
    \/ ~rs.exists /\ version \in Listed

\* C6 as stated: every runtime version passed to download_for_architecture,
\* and used in its urls and file names, was confirmed to exist for that
\* architecture by the probe or by the index listing.
C6_Original ==
    UsesRuntimeVersion
      => /\ rs.arch = dfa.arch
         /\ ConfirmedToExist(VersionInUse)

\* C6 amended: every runtime version passed to download_for_architecture was
\* confirmed to exist by the probe or by the index listing, except when the
\* probe failed and the index could not be read or listed no runtime version:
\* then it is the desired version, unconfirmed.
C6_ConfirmedOrDesired ==
    UsesRuntimeVersion
      => /\ rs.arch = dfa.arch
         /\ Entered => df.filename.version = VersionInUse
         /\ \/ ConfirmedToExist(VersionInUse)
            \/ ~rs.exists /\ Listed = {} /\ VersionInUse = u.docker_version

\* C6 witness: the probe of 27.10.0 failed, the index listed 27.9.0, and the
\* rootless-extras archive of 27.9.0 is being fetched for aarch64.
C6_Witness ==
    /\ Entered /\ df.ret = "a_rootless_ret" /\ dfa.arch = "aarch64"
    /\ ~rs.exists /\ u.docker_version = VersionText(27, 10, 0)
    /\ df.url = Url("docker-rootless-extras", VersionText(27, 9, 0), "aarch64")

\* The rootless-extras versions the fallback listing held.
RootlessListed ==
    {dfa.listing.page[i].version :
       i \in {j \in 1..Len(dfa.listing.page) :
                dfa.listing.page[j].family = "docker-rootless-extras"}}

\* The positions of the trace at which op was done.
Done(op) == {i \in 1..Len(dfa.trace) : dfa.trace[i].op = op}

\* C9: the rootless fallback listing comes right after a failed primary
\* rootless fetch and nowhere else; a fallback fetch comes right after a
\* listing that held a version, under the newest one, and at most once; and
\* when download_for_architecture has returned, the slot's result is True
\* with no listing and no fallback after a primary success, the result of the
\* one fallback fetch after a failure with a non-empty listing, and False
\* with no fallback fetch after a failure with an empty listing.
C9_OneLevelFallback ==
    /\ \A i \in Done("list_rootless") :
          i > 1 /\ dfa.trace[i - 1].op = "rootless" /\ ~dfa.trace[i - 1].ok
    /\ \A i \in Done("rootless_fallback") :
          /\ i > 1 /\ dfa.trace[i - 1].op = "list_rootless" /\ dfa.trace[i - 1].ok
          /\ dfa.trace[i].version \in RootlessListed
          /\ \A w \in RootlessListed : ~NumericBelow(dfa.trace[i].version, w)
    /\ Cardinality(Done("rootless")) <= 1
    /\ Cardinality(Done("list_rootless")) <= 1
    /\ Cardinality(Done("rootless_fallback")) <= 1
    /\ (pc \notin {"df_exists", "df_for", "df_urlopen", "df_read", "df_done", "df_backoff"}
         \/ df.ret # "a_fallback_ret")
        \/ /\ dfa.trace[Len(dfa.trace)].op = "list_rootless"
           /\ df.url.version \in RootlessListed
           /\ \A w \in RootlessListed : ~NumericBelow(df.url.version, w)
    /\ pc = "u_add"
         => \E p \in Done("rootless") :
              /\ dfa.trace[p].ok
                   => /\ Done("list_rootless") = {} /\ Done("rootless_fallback") = {}
                      /\ dfa.results[3]
              /\ (~dfa.trace[p].ok /\ RootlessListed # {})
                   => /\ Done("rootless_fallback") = {Len(dfa.trace)}
                      /\ dfa.results[3] = dfa.trace[Len(dfa.trace)].ok
              /\ (~dfa.trace[p].ok /\ RootlessListed = {})
                   => /\ Done("rootless_fallback") = {}
                      /\ ~dfa.results[3]

\* C9 witness: the primary rootless fetch of 27.10.0 failed, the listing held
\* 27.9.0, the one fallback fetch of 27.9.0 failed too, and the slot failed.
C9_Witness ==
    /\ pc = "u_add" /\ dfa.docker_version = VersionText(27, 10, 0)
    /\ Cardinality(Done("rootless_fallback")) = 1
    /\ dfa.trace[Len(dfa.trace)]
         = [op |-> "rootless_fallback", version |-> VersionText(27, 9, 0), ok |-> FALSE]
    /\ ~dfa.results[3]

\* The outcome of each slot, read off what was done.
SlotOk(slot) ==
    CASE slot = 1 -> \E i \in Done("runtime") : dfa.trace[i].ok
      [] slot = 2 -> \E i \in Done("compose") : dfa.trace[i].ok
      [] slot = 3 -> \/ \E i \in Done("rootless") : dfa.trace[i].ok
                     \/ \E i \in Done("rootless_fallback") : dfa.trace[i].ok

\* C10: when download_for_architecture has returned, the runtime fetch, the
\* compose lookup and the rootless fetch have each been done once, in that
\* order, whatever the earlier slots gave; total_count is 3 and
\* success_count, between 0 and 3, is the number of slots that succeeded.
C10_ThreeSlots ==
    pc = "u_add"
      => /\ \E i \in Done("runtime"), j \in Done("locate"), k \in Done("rootless") :
               /\ i = 1 /\ i < j /\ j < k
               /\ Done("runtime") = {i} /\ Done("locate") = {j} /\ Done("rootless") = {k}
               /\ Done("compose") \subseteq {j + 1}
               /\ dfa.trace[j].ok <=> Done("compose") # {}
         /\ dfa.total_count = 3
         /\ dfa.results = [slot \in 1..3 |-> SlotOk(slot)]
         /\ dfa.success_count = Cardinality({slot \in 1..3 : SlotOk(slot)})
         /\ dfa.success_count \in 0..3

\* C10 witness: the runtime fetch failed, the compose fetch succeeded all the
\* same, the rootless slot failed: 1 of 3.
C10_Witness ==
    /\ pc = "u_add"
    /\ dfa.results = <<FALSE, TRUE, FALSE>>
    /\ dfa.success_count = 1 /\ dfa.total_count = 3

\* The release lists an asset named exactly docker-compose-linux-<arch>, with
\* or without ".exe".
CanonicalListed ==
    \E i \in 1..Len(loc.answer.assets) :
       loc.answer.assets[i] \in {AssetName("linux", loc.arch, ""),
                                  AssetName("linux", loc.arch, ".exe")}

\* The url returned is that of an asset whose whole name is
\* docker-compose-linux-<token>, with or without ".exe", for the architecture
\* or one of its aliases.
ReturnedExact ==
    \E token \in {"x86_64", "aarch64", "amd64", "arm64"}, ext \in {"", ".exe"} :
       /\ token = loc.arch \/ \E i \in 1..Len(Alt(loc.arch)) : token = Alt(loc.arch)[i]
       /\ loc.url = AssetUrl(AssetName("linux", token, ext))

\* C7 as stated: whenever the release lists an exactly named asset, in any
\* position, the locator returns an exact match and not an asset that only
\* contains the architecture token.
C7_ExactBeforeSubstring ==
    (pc = "located" /\ loc.answer.ok /\ CanonicalListed) => ReturnedExact

\* C8 as stated: for aarch64 and a release holding docker-compose-linux-aarch64
\* and docker-compose-linux-aarch64.exe, in either order, the locator returns
\* the url of the asset without ".exe".
C8_NonExeAsset ==
    (/\ pc = "located" /\ loc.answer.ok
     /\ loc.version = VersionText(2, 32, 4) /\ loc.arch = "aarch64"
     /\ Len(loc.answer.assets) = 2
     /\ {loc.answer.assets[1], loc.answer.assets[2]}
          = {AssetName("linux", "aarch64", ""), AssetName("linux", "aarch64", ".exe")})
      => loc.url = AssetUrl(AssetName("linux", "aarch64", ""))

\* The download pass is over: update() is at one of its later statements.
AfterDownloads == pc \in {"u_checksums", "u_version", "u_cleanup", "u_logs", "u_return", "done"}

\* The slots of the finished download_for_architecture calls that succeeded.
SucceededSlots == {<<i, s>> \in (1..Len(u.done)) \X (1..3) : u.done[i].results[s]}

\* C11: once the download pass is over every requested architecture has been
\* processed, in order and with its three slots, whatever the earlier
\* architectures gave; the totals are the summed counts; and update() returns
\* True exactly when every slot of every architecture succeeded.
C11_ExitContract ==
    /\ AfterDownloads
         => /\ Len(u.done) = Len(architectures)
            /\ \A i \in 1..Len(u.done) :
                  u.done[i].arch = architectures[i] /\ Len(u.done[i].results) = 3
            /\ u.total_count = 3 * Len(architectures)
            /\ u.total_success = Cardinality(SucceededSlots)
    /\ pc = "done"
         => (u.ok <=> \A i \in 1..Len(u.done), s \in 1..3 : u.done[i].results[s])

\* C11 witness: the runtime slot of the first architecture failed, the second
\* architecture was processed all the same and succeeded in every slot, and
\* update() returned False.
C11_Witness ==
    /\ pc = "done" /\ ~u.ok
    /\ Len(u.done) = 2
    /\ ~u.done[1].results[1]
    /\ u.done[2].results = <<TRUE, TRUE, TRUE>>

\* The version text has the form MAJOR.MINOR.PATCH.
IsVersion(v) == \E a \in 0..9, b \in 0..9, c \in 0..9 : v = VersionText(a, b, c)

\* The stand-alone cleanup call, and the directory it was given.
TheCleanup == u.cleaned[1]
DirectoryBefore == (DOMAIN files) \cup TheCleanup.deleted

\* The files of the directory that are due: of the call's architecture, of
\* one of the three families with a MAJOR.MINOR.PATCH version in the name,
\* and that version is not the current one passed for the family (the
\* runtime version for runtime and rootless-extras archives).
Due ==
    {n \in DirectoryBefore :
       /\ n.arch = TheCleanup.arch
       /\ IsVersion(n.version)
       /\ \/ n.family \in {"docker", "docker-rootless-extras"}
             /\ n.version # TheCleanup.docker_version
          \/ n.family = "docker-compose-linux"
             /\ n.version # TheCleanup.compose_version}

\* C12: a cleanup_old_versions call in which no deletion failed has removed
\* exactly the files that were due; every other file is still there with its
\* content.
C12_DeletionSet ==
    (pc = "cleaned" /\ ~TheCleanup.error)
      => /\ TheCleanup.deleted = Due
         /\ DOMAIN files = DirectoryBefore \ Due
         /\ \A n \in DOMAIN files : files[n] = <<1>>

\* C12 witness: with runtime archives 1.0.0, 1.1.0 and 1.2.0 on disk and
\* 1.2.0 current, 1.0.0 and 1.1.0 were removed; 1.2.0, the aarch64 archive, the
\* archive of another family and the one with a two-part version are left.
C12_Witness ==
    /\ pc = "cleaned" /\ ~TheCleanup.error
    /\ TheCleanup.arch = "x86_64" /\ TheCleanup.docker_version = VersionText(1, 2, 0)
    /\ {FileName("docker", VersionText(1, 0, 0), "x86_64"),
        FileName("docker", VersionText(1, 1, 0), "x86_64")} \subseteq TheCleanup.deleted
    /\ {FileName("docker", VersionText(1, 2, 0), "x86_64"),
        FileName("docker", VersionText(1, 0, 0), "aarch64"),
        FileName("containerd", VersionText(1, 0, 0), "x86_64"),
        FileName("docker", <<"1", ".", "0">>, "x86_64")} \subseteq DOMAIN files

\* The rootless-extras archives this run installed for the i-th architecture:
\* those download_file returned True for, fetched or skipped as present.
InstalledRootless(i) ==
    {n \in okNames : n.family = "docker-rootless-extras" /\ n.arch = architectures[i]}

\* C13: when update() has returned, the rootless-extras archive installed
\* for an architecture, under the runtime version or under the fallback
\* version, is still in the output directory; also when the cleanup pass
\* resolved the very runtime version the downloads used.
C13_InstalledRetained ==
    pc = "done"
      => \A i \in 1..Len(u.cleaned) :
           u.cleaned[i].docker_version = u.done[i].docker_version
             => InstalledRootless(i) \subseteq DOMAIN files

\* C14: a cleanup_old_versions call is made only when the downloads of all
\* architectures are over, and the runtime version each call is given is the
\* one that was resolved for its architecture and used for its downloads.
C14_SameRetentionKey ==
    /\ Len(u.cleaned) > 0 => Len(u.done) = Len(architectures)
    /\ \A i \in 1..Len(u.cleaned) :
          /\ u.cleaned[i].arch = u.done[i].arch
          /\ u.cleaned[i].docker_version = u.done[i].docker_version

\* C15: when cleanup_old_versions has returned, every file that was due has
\* been deleted, but for the one whose deletion failed, if one did.
C15_BestEffortDeletion ==
    pc = "cleaned"
      => /\ TheCleanup.deleted \subseteq Due
         /\ Cardinality(Due \ TheCleanup.deleted) <= (IF TheCleanup.error THEN 1 ELSE 0)

\* The slots of the finished download_for_architecture calls that failed.
FailedSlots == {<<i, s>> \in (1..Len(u.done)) \X (1..3) : ~u.done[i].results[s]}

\* C16: when update() has returned, the 'failed' counter is the number of
\* failed slots, and success + skipped + failed is the number of slots.
C16_FailuresCounted ==
    pc = "done"
      => /\ stats.failed = Cardinality(FailedSlots)
         /\ stats.success + stats.skipped + stats.failed = 3 * Len(architectures)

\* VERSION.json has been written by this run.
VersionWritten == pc \in {"u_cleanup", "u_logs", "u_return", "done"}

\* C17: the runtime version VERSION.json holds is the resolved version the
\* downloads of each architecture used.
C17_ResolvedVersionRecorded ==
    VersionWritten
      => \A i \in 1..Len(u.done) : docs.VERSION.docker_version = u.done[i].docker_version

\* C18: when create_checksums_file has returned, SHA256SUMS holds one line
\* for every artifact in the output directory, the compose binaries
\* included, with the digest of its content.
C18_ManifestCoversAll ==
    pc = "u_version"
      => /\ {docs.SHA256SUMS[i].name : i \in 1..Len(docs.SHA256SUMS)} = DOMAIN files
         /\ Len(docs.SHA256SUMS) = Cardinality(DOMAIN files)
         /\ \A i \in 1..Len(docs.SHA256SUMS) :
               docs.SHA256SUMS[i].sha256 = HashFrom(7, files[docs.SHA256SUMS[i].name])

\* The resolver's last call found neither the probed url nor a readable
\* index; the locator's last call got no release metadata.
ResolverDiscoveryFailed == rs # NoResolve /\ ~rs.exists /\ ~rs.answer.ok
LocatorDiscoveryFailed == loc # NoLocate /\ ~loc.answer.ok

\* update() has returned after processing every architecture, writing the
\* manifest and the version document and running every cleanup.
RunCompleted ==
    /\ pc = "done"
    /\ Len(u.done) = Len(architectures)
    /\ \A i \in 1..Len(u.done) : Len(u.done[i].results) = 3
    /\ docs.VERSION # NoInfo
    /\ Len(u.cleaned) = Len(architectures)

\* C19: when the probe fails and the index cannot be read or lists no runtime
\* version the resolver returns the desired version; when the release
\* metadata cannot be read the locator returns no url; and after either,
\* update() goes on to process every architecture and slot and reaches the
\* manifest, the cleanup and its return.
C19_DiscoveryFailureRecovered ==
    /\ []((rs # NoResolve /\ ~rs.exists /\ Listed = {})
            => (rs.version = rs.desired /\ rs.desired = u.docker_version))
    /\ [](LocatorDiscoveryFailed => loc.url = NoUrl)
    /\ ((ResolverDiscoveryFailed \/ LocatorDiscoveryFailed) ~> RunCompleted)

\* C19 witness: for the second architecture the probe failed, the index was
\* unreadable and the desired version was used; the release metadata was
\* unreadable, the compose slot failed, and the run is at the rootless slot.
C19_Witness ==
    /\ pc = "a_rootless" /\ dfa.arch = "aarch64" /\ Len(u.done) = 1
    /\ ResolverDiscoveryFailed /\ dfa.docker_version = u.docker_version
    /\ LocatorDiscoveryFailed /\ loc.url = NoUrl
    /\ Len(dfa.results) = 2 /\ ~dfa.results[2]

\* The call of cleanup_logs that has returned, and the names of a set of logs.
LogsCleaned == u.cleaned_logs # <<>> /\ pc \in {"logged", "u_return", "done"}
LogNames(logs) == {l.name : l \in logs}

\* C20: after cleanup_logs(keep_count) has returned without an error the
\* directory holds at most keep_count logs, each of them was there before the
\* call, none that is gone was modified later than one that is kept, as many
\* are kept as keep_count allows, and with keep_count >= 1 this run's log is
\* one of them.
C20_LogRetention ==
    (LogsCleaned /\ ~u.cleaned_logs[1].error)
      => \E before \in {u.cleaned_logs[1].before},
            keep_count \in {u.cleaned_logs[1].keep_count} :
           /\ Cardinality(docs.logs) <= keep_count
           /\ LogNames(docs.logs) \subseteq LogNames(before)
           /\ \A gone \in {l \in before : l.name \notin LogNames(docs.logs)},
                 kept \in {l \in before : l.name \in LogNames(docs.logs)} :
                   gone.mtime <= kept.mtime
           /\ Cardinality(docs.logs) = keep_count
                \/ LogNames(docs.logs) = LogNames(before)
           /\ keep_count >= 1 => log_file \in LogNames(docs.logs)

\* download_file is between two attempts: an attempt has failed and the
\* next urlopen has not been made.
BetweenAttempts == pc \in {"df_backoff", "df_for", "df_urlopen"}

\* C21: between a failed attempt and the next one, and whenever download_file
\* has returned False (after a 404, after another HTTP error, or with its
\* attempts used up after a transfer that broke off), the destination is not
\* in the output directory.
C21_NoPartialFile ==
    /\ BetweenAttempts => ~Exists(files, df.filename)
    /\ (Returned /\ ~dfResult.ok) => ~Exists(files, df.filename)

\* C21 witness: download_file has returned False with all of its two or more
\* attempts made, the last one not answered by a 404, and the destination is
\* not there.
C21_Witness ==
    /\ Returned /\ ~dfResult.ok /\ dfResult.outcome = "failed"
    /\ df.max_retries >= 2 /\ netlog.attempts = df.max_retries
    /\ ~netlog.notFound /\ Len(netlog.delays) = df.max_retries - 1
    /\ ~Exists(files, df.filename)

\* The invocations of download_file that have been counted.
Counted(st) == st.success + st.failed + st.skipped

\* One step of download_file adds one to this counter and nothing to the
\* other two.
AddsOne(counter) ==
    /\ stats'[counter] = stats[counter] + 1
    /\ \A other \in {"success", "failed", "skipped"} \ {counter} :
          stats'[other] = stats[other]

\* The step is a return of download_file.
Returns == pc' = df.ret /\ pc # df.ret

\* What a step may do to the counters.
CountsOnce ==
    /\ (stats' # stats)
         => /\ Returns
            /\ \/ AddsOne("success") /\ dfResult'.outcome = "downloaded"
               \/ AddsOne("failed") /\ dfResult'.outcome = "failed"
               \/ AddsOne("skipped") /\ dfResult'.outcome = "skipped"
    /\ Returns => (stats' # stats)
    /\ stats'.total_size >= stats.total_size
    /\ (stats'.total_size # stats.total_size) => AddsOne("success")
    /\ AddsOne("success")
         => stats'.total_size = stats.total_size + Len(files'[df.filename])

\* C22: every invocation of download_file, whatever max_retries and whatever
\* the network answers, adds one to exactly one of success, failed and
\* skipped, in the step that returns, and nothing to the other two: the
\* invocations that have returned are the invocations counted. total_size
\* changes only with success, by the size of the file written, and never
\* goes down.
C22_OneOutcome ==
    /\ [](Counted(stats) = IF pc = "idle" THEN calls ELSE calls - 1)
    /\ [][CountsOnce]_vars

\* C22 witness: a first invocation has downloaded a file of two blocks, a
\* second one, given no attempt at all, has failed, and each was counted once.
C22_Witness ==
    /\ Returned /\ calls = 2 /\ df.max_retries = 0 /\ dfResult.outcome = "failed"
    /\ stats = [success |-> 1, failed |-> 1, skipped |-> 0, total_size |-> 2]

\* The file names on the lines of SHA256SUMS.
Manifested == {docs.SHA256SUMS[i].name : i \in 1..Len(docs.SHA256SUMS)}

\* C23: when update() has returned, every name on a line of the SHA256SUMS
\* this run wrote is the name of a file of the output directory: the run's
\* own cleanup has removed nothing that the manifest lists.
C23_ManifestMatchesDirectory ==
    pc = "done" => \A name \in Manifested : Exists(files, name)
====
